---- MODULE Spec2Model ----
(***************************************************************************)
(* Model of src/Hard.py: generator of a principal ideal in Z or K[x]       *)
(* (gcd_integers, gcd_polynomials, gcd_ring_elements) and the membership   *)
(* test is_in_ideal.                                                       *)
(*                                                                         *)
(* Python lists are objects: a RingElement of the polynomial variant holds *)
(* the address of its coefficient list in `heap`, a slice `x[:]` allocates *)
(* a new list, and `f[i] -= ...` / `f.pop()` change a list in place.       *)
(*                                                                         *)
(* Coefficients are exact rationals <<numerator, denominator>>; the        *)
(* rounding of Python floats is not modelled.  The one IEEE value that is  *)
(* modelled is NaN (specification SpecFloat), whose arithmetic is exact:   *)
(* every operation on NaN gives NaN and every comparison with it is false. *)
(***************************************************************************)
EXTENDS Integers, Sequences, FiniteSets, TLC

VARIABLES op, generators, cand, heap, pc, err, d, f, g, idx, gen,
          f_coef, d_coef, result, iters, len0, calls, first

(* op          the function the caller calls                               *)
(* generators  the elements passed (elements / polys / generators)         *)
(* cand        the candidate f of is_in_ideal, if any                      *)
(* heap        the list objects, by address                                *)
(* pc, err     the place of the call, and the exception it raised          *)
(* d, f, g     the locals of gcd_polynomials (addresses), idx the place    *)
(*             of its for loop in polys                                    *)
(* gen         what gcd_ring_elements returned (d of is_in_ideal)          *)
(* f_coef, d_coef   the locals of is_in_ideal (addresses)                  *)
(* result      what is_in_ideal returned                                   *)
(* iters, len0 passes of the running elimination loop, and the length of   *)
(*             its dividend when it was entered                            *)
(* calls, first     the caller's count of calls and the first outcome      *)
vars == <<op, generators, cand, heap, pc, err, d, f, g, idx, gen,
          f_coef, d_coef, result, iters, len0, calls, first>>

-----------------------------------------------------------------------------
(* Bounds of the model.                                                    *)

\* Integer generators and candidates range over -MaxInt..MaxInt.
MaxInt == 3
\* An integer generator list has at most MaxInts elements.
MaxInts == 3
\* Polynomial coefficients given by the caller range over -1..MaxCoef.
MaxCoef == 1
\* Size of a polynomial input: one per generator, plus the number of
\* coefficients of every generator and of the candidate.
MaxSize == 6
\* The elimination loops are followed for at most IterCap iterations.
IterCap == 8

\* 1e-12 = 1 / (EpsRoot * EpsRoot), the tolerance of the near-zero tests.
EpsRoot == 1000000

-----------------------------------------------------------------------------
(* Numbers.                                                                *)

Abs(n) == IF n < 0 THEN -n ELSE n

RECURSIVE NatGcd(_, _)
NatGcd(a, b) == IF b = 0 THEN a ELSE NatGcd(b, a % b)

\* float('nan')
NaN == <<0, 0>>
IsNaN(c) == c[2] = 0

\* The rational n/m (m # 0) in lowest terms with a positive denominator.
Rat(n, m) ==
    LET k == NatGcd(Abs(n), Abs(m))
        s == IF m < 0 THEN -1 ELSE 1
    IN  <<(s * n) \div k, (s * m) \div k>>

Zero == <<0, 1>>
One == <<1, 1>>
FromInt(n) == <<n, 1>>

\* a - b, a * b and a / b of Python floats (b # 0 in RDiv: the caller raises
\* ZeroDivisionError first).
RSub(a, b) ==
    IF IsNaN(a) \/ IsNaN(b) THEN NaN
    ELSE Rat(a[1] * b[2] - b[1] * a[2], a[2] * b[2])
RMul(a, b) ==
    IF IsNaN(a) \/ IsNaN(b) THEN NaN
    ELSE Rat(a[1] * b[1], a[2] * b[2])
RDiv(a, b) ==
    IF IsNaN(a) \/ IsNaN(b) THEN NaN
    ELSE Rat(a[1] * b[2], a[2] * b[1])

\* abs(c) < 1e-12: |n| / m < 1 / EpsRoot^2, that is |n| <= (m - 1) div EpsRoot^2.
\* False for NaN.
NearZero(c) ==
    /\ ~IsNaN(c)
    /\ Abs(c[1]) <= ((c[2] - 1) \div EpsRoot) \div EpsRoot

\* Truth value of a number: `c != 0` (NaN is true).
Truthy(c) == c # Zero

\* any(g)
AnyTrue(s) == \E i \in 1..Len(s) : Truthy(s[i])

\* a % b of Python integers, b # 0: the result has the sign of b.
PyMod(a, b) == IF b > 0 THEN a % b ELSE -((-a) % (-b))

-----------------------------------------------------------------------------
(* gcd_integers.                                                           *)

\* The loop of gcd_two: while b != 0: a, b = b, a % b.
RECURSIVE EuclidLoop(_, _)
EuclidLoop(a, b) == IF b # 0 THEN EuclidLoop(b, a % b) ELSE a

gcd_two(a, b) == EuclidLoop(Abs(a), Abs(b))

\* reduce(gcd_two, numbers) from position i on, acc the value so far.
RECURSIVE ReduceFrom(_, _, _)
ReduceFrom(acc, numbers, i) ==
    IF i > Len(numbers) THEN acc
    ELSE ReduceFrom(gcd_two(acc, numbers[i]), numbers, i + 1)

\* reduce without an initial value starts from the first element, and
\* returns it as it is when it is the only one (numbers is not empty here).
gcd_integers(numbers) == ReduceFrom(numbers[1], numbers, 2)

-----------------------------------------------------------------------------
(* Steps of the polynomial division, on the values of the lists.           *)

Last(s) == s[Len(s)]

\* coef = f[-1] / g[-1]; for i in range(len(g)): f[i + deg_diff] -= coef * g[i]
Eliminate(fv, gv) ==
    LET deg_diff == Len(fv) - Len(gv)
        coef == RDiv(Last(fv), Last(gv))
    IN  [i \in 1..Len(fv) |->
            IF i > deg_diff THEN RSub(fv[i], RMul(coef, gv[i - deg_diff]))
            ELSE fv[i]]

\* while f and abs(f[-1]) < 1e-12: f.pop()
RECURSIVE TrimTop(_)
TrimTop(fv) ==
    IF Len(fv) > 0 /\ NearZero(Last(fv)) THEN TrimTop(SubSeq(fv, 1, Len(fv) - 1))
    ELSE fv

\* lc = f[-1]; [c / lc for c in f]
Monic(fv) == [i \in 1..Len(fv) |-> RDiv(fv[i], Last(fv))]

-----------------------------------------------------------------------------
(* The heap of list objects.                                               *)

\* Slice without the copy: `p.data` in place of `p.data[:]`, the same list
\* under another name.
SliceAlias(h, a) == [heap |-> h, ref |-> a]

\* x[:] : a new list with the elements of the list at address a.
Slice(h, a) == [heap |-> Append(h, h[a]), ref |-> Len(h) + 1]

\* A list built by a comprehension.
NewList(h, v) == [heap |-> Append(h, v), ref |-> Len(h) + 1]

\* RingElement(data): is_polynomial = isinstance(data, list).
IntElement(n) == [is_polynomial |-> FALSE, data |-> n]
PolyElement(a) == [is_polynomial |-> TRUE, data |-> a]

\* The addresses of the lists the caller owns.
CallerAddrs ==
    {generators[i].data : i \in {j \in 1..Len(generators) : generators[j].is_polynomial}}
    \cup {cand[i].data : i \in {j \in 1..Len(cand) : cand[j].is_polynomial}}

-----------------------------------------------------------------------------
(* The caller: the elements it builds before a call.                       *)

IntCoefs == {FromInt(k) : k \in (-1)..MaxCoef}
FloatCoefs == IntCoefs \cup {NaN}

\* The lists of coefficient lists over C of size at most s (one per list,
\* plus its coefficients).
RECURSIVE PolyLists(_, _)
PolyLists(s, C) ==
    {<<>>} \cup
    UNION {{<<p>> \o rest : p \in [1..n -> C], rest \in PolyLists(s - 1 - n, C)} :
             n \in 0..(s - 1)}

RECURSIVE Size(_)
Size(vals) == IF vals = <<>> THEN 0 ELSE 1 + Len(Head(vals)) + Size(Tail(vals))

IntLists == UNION {[1..n -> (-MaxInt)..MaxInt] : n \in 0..MaxInts}

\* Nothing has run yet: no local is bound, nothing is returned or raised.
Fresh ==
    /\ pc = "call"
    /\ err = "none"
    /\ d = 0 /\ f = 0 /\ g = 0 /\ idx = 0
    /\ gen = <<>>
    /\ f_coef = 0 /\ d_coef = 0
    /\ result = <<>>
    /\ iters = 0 /\ len0 = 0
    /\ calls = 1
    /\ first = <<>>

\* gens_int = [RingElement(12), RingElement(18)], with or without a candidate.
InitInt ==
    \E numbers \in IntLists :
        /\ generators = [i \in 1..Len(numbers) |-> IntElement(numbers[i])]
        /\ heap = <<>>
        /\ \/ op = "gcd_ring_elements" /\ cand = <<>>
           \/ op = "is_in_ideal" /\ \E n \in (-MaxInt)..MaxInt : cand = <<IntElement(n)>>

\* gens_poly = [RingElement([1, -1]), RingElement([1, -3, 2])]: every element
\* holds a list of its own.
InitPoly(C) ==
    \E vals \in PolyLists(MaxSize, C) :
        /\ generators = [i \in 1..Len(vals) |-> PolyElement(i)]
        /\ \/ op = "gcd_ring_elements" /\ cand = <<>> /\ heap = vals
           \/ /\ op = "is_in_ideal"
              /\ \E n \in 0..(MaxSize - Size(vals)) : \E fv \in [1..n -> C] :
                    /\ heap = Append(vals, fv)
                    /\ cand = <<PolyElement(Len(vals) + 1)>>

Init == Fresh /\ (InitInt \/ InitPoly(IntCoefs))

InitFloat == Fresh /\ (InitInt \/ InitPoly(FloatCoefs))

-----------------------------------------------------------------------------
(* gcd_ring_elements.                                                      *)

\* The emptiness test left out: no list counts as empty.
NotElementsNever(elements) == FALSE

\* not elements
NotElements(elements) == Len(elements) = 0

\* Where gcd_ring_elements returns to: its caller, or line 125 of is_in_ideal.
AfterGcd == IF op = "is_in_ideal" THEN "ideal" ELSE "done"

Raise(e) == pc' = "raised" /\ err' = e

GcdRingElements ==
    /\ pc = "call"
    /\ IF NotElements(generators)
       THEN Raise("ValueError") /\ UNCHANGED gen
       ELSE IF Len(generators) = 0        \* elements[0] of an empty list
       THEN Raise("IndexError") /\ UNCHANGED gen
       ELSE IF ~generators[1].is_polynomial
       THEN /\ gen' = <<IntElement(gcd_integers([i \in 1..Len(generators) |->
                                                   generators[i].data]))>>
            /\ pc' = AfterGcd
            /\ UNCHANGED err
       ELSE /\ pc' = "poly_init"
            /\ UNCHANGED <<gen, err>>
    /\ UNCHANGED <<op, generators, cand, heap, d, f, g, idx, f_coef, d_coef,
                   result, iters, len0, calls, first>>

-----------------------------------------------------------------------------
(* gcd_polynomials.                                                        *)

\* d = polys[0].data[:]
PolyInit ==
    /\ pc = "poly_init"
    /\ LET c == Slice(heap, generators[1].data)
       IN  heap' = c.heap /\ d' = c.ref
    /\ idx' = 2
    /\ pc' = "poly_for"
    /\ UNCHANGED <<op, generators, cand, err, f, g, gen, f_coef, d_coef,
                   result, iters, len0, calls, first>>

\* for p in polys[1:]: g = p.data[:]; f = d[:]
PolyNext ==
    /\ pc = "poly_for"
    /\ idx <= Len(generators)
    /\ LET c1 == Slice(heap, generators[idx].data)
           c2 == Slice(c1.heap, d)
       IN  heap' = c2.heap /\ g' = c1.ref /\ f' = c2.ref
    /\ pc' = "poly_while"
    /\ UNCHANGED <<op, generators, cand, err, d, idx, gen, f_coef, d_coef,
                   result, iters, len0, calls, first>>

\* return RingElement(d)
PolyReturn ==
    /\ pc = "poly_for"
    /\ idx > Len(generators)
    /\ gen' = <<PolyElement(d)>>
    /\ pc' = AfterGcd
    /\ UNCHANGED <<op, generators, cand, heap, err, d, f, g, idx, f_coef,
                   d_coef, result, iters, len0, calls, first>>

\* while any(g): enters the division loop, or leaves for the normalisation.
EuclidTest ==
    /\ pc = "poly_while"
    /\ IF AnyTrue(heap[g])
       THEN pc' = "poly_div" /\ iters' = 0 /\ len0' = Len(heap[f])
       ELSE pc' = "poly_norm" /\ UNCHANGED <<iters, len0>>
    /\ UNCHANGED <<op, generators, cand, heap, err, d, f, g, idx, gen, f_coef,
                   d_coef, result, calls, first>>

\* One pass of `while len(f) >= len(g)`: the leading term of f is eliminated
\* in place, then the near-zero top coefficients are popped.
PolyEliminate ==
    /\ pc = "poly_div"
    /\ Len(heap[f]) >= Len(heap[g])
    /\ iters < IterCap
    /\ IF Last(heap[g]) = Zero
       THEN Raise("ZeroDivisionError") /\ UNCHANGED <<heap, iters>>
       ELSE /\ heap' = [heap EXCEPT ![f] = TrimTop(Eliminate(heap[f], heap[g]))]
            /\ iters' = iters + 1
            /\ UNCHANGED <<pc, err>>
    /\ UNCHANGED <<op, generators, cand, d, f, g, idx, gen, f_coef, d_coef,
                   result, len0, calls, first>>

\* f, g = g, f
PolySwap ==
    /\ pc = "poly_div"
    /\ Len(heap[f]) < Len(heap[g])
    /\ f' = g /\ g' = f
    /\ pc' = "poly_while"
    /\ UNCHANGED <<op, generators, cand, heap, err, d, idx, gen, f_coef,
                   d_coef, result, iters, len0, calls, first>>

\* lc = f[-1]; d = [c / lc for c in f]
PolyNormalize ==
    /\ pc = "poly_norm"
    /\ IF Len(heap[f]) = 0
       THEN Raise("IndexError") /\ UNCHANGED <<heap, d, idx>>
       ELSE IF Last(heap[f]) = Zero
       THEN Raise("ZeroDivisionError") /\ UNCHANGED <<heap, d, idx>>
       ELSE /\ LET c == NewList(heap, Monic(heap[f]))
               IN  heap' = c.heap /\ d' = c.ref
            /\ idx' = idx + 1
            /\ pc' = "poly_for"
            /\ UNCHANGED err
    /\ UNCHANGED <<op, generators, cand, f, g, gen, f_coef, d_coef, result,
                   iters, len0, calls, first>>

-----------------------------------------------------------------------------
(* is_in_ideal, after d = gcd_ring_elements(generators).                   *)

\* if not f.is_polynomial: return f.data % d.data == 0
\* otherwise f_coef = f.data[:]; d_coef = d.data[:]
IdealTest ==
    /\ pc = "ideal"
    /\ IF ~cand[1].is_polynomial
       THEN /\ IF gen[1].data = 0
               THEN Raise("ZeroDivisionError") /\ UNCHANGED result
               ELSE /\ result' = <<PyMod(cand[1].data, gen[1].data) = 0>>
                    /\ pc' = "done"
                    /\ UNCHANGED err
            /\ UNCHANGED <<heap, f_coef, d_coef, iters, len0>>
       ELSE /\ LET c1 == Slice(heap, cand[1].data)
                   c2 == Slice(c1.heap, gen[1].data)
               IN  heap' = c2.heap /\ f_coef' = c1.ref /\ d_coef' = c2.ref
            /\ iters' = 0
            /\ len0' = Len(heap[cand[1].data])
            /\ pc' = "ideal_div"
            /\ UNCHANGED <<err, result>>
    /\ UNCHANGED <<op, generators, cand, d, f, g, idx, gen, calls, first>>

\* One pass of `while len(f_coef) >= len(d_coef)`.
IdealEliminate ==
    /\ pc = "ideal_div"
    /\ Len(heap[f_coef]) >= Len(heap[d_coef])
    /\ iters < IterCap
    /\ IF Len(heap[d_coef]) = 0
       THEN Raise("IndexError") /\ UNCHANGED <<heap, iters>>
       ELSE IF Last(heap[d_coef]) = Zero
       THEN Raise("ZeroDivisionError") /\ UNCHANGED <<heap, iters>>
       ELSE /\ heap' = [heap EXCEPT
                          ![f_coef] = TrimTop(Eliminate(heap[f_coef], heap[d_coef]))]
            /\ iters' = iters + 1
            /\ UNCHANGED <<pc, err>>
    /\ UNCHANGED <<op, generators, cand, d, f, g, idx, gen, f_coef, d_coef,
                   result, len0, calls, first>>

\* return all(abs(c) < 1e-12 for c in f_coef)
IdealReturn ==
    /\ pc = "ideal_div"
    /\ Len(heap[f_coef]) < Len(heap[d_coef])
    /\ result' = <<\A i \in 1..Len(heap[f_coef]) : NearZero(heap[f_coef][i])>>
    /\ pc' = "done"
    /\ UNCHANGED <<op, generators, cand, heap, err, d, f, g, idx, gen, f_coef,
                   d_coef, iters, len0, calls, first>>

-----------------------------------------------------------------------------
(* The caller, after a call of gcd_ring_elements has returned or raised.   *)

Finished == pc \in {"done", "raised"}

\* What the call gave: the value of the returned element, or the exception.
Outcome ==
    [ok |-> pc = "done",
     value |-> IF pc # "done" THEN err
               ELSE IF gen[1].is_polynomial THEN heap[gen[1].data]
               ELSE gen[1].data]

\* The orders in which the same elements can be passed again.
Reorderings(elements) ==
    {[i \in 1..Len(elements) |-> elements[p[i]]] :
        p \in {q \in [1..Len(elements) -> 1..Len(elements)] :
                 \A i, j \in 1..Len(elements) : q[i] = q[j] => i = j}}

\* The caller passes the same elements once more, in another order; the
\* lists of the finished call are gone.
Recall ==
    /\ Finished
    /\ op = "gcd_ring_elements"
    /\ calls = 1
    /\ \E again \in Reorderings(generators) :
          /\ again # generators
          /\ generators' = again
    /\ first' = <<Outcome>>
    /\ calls' = 2
    /\ heap' = SubSeq(heap, 1, Cardinality(CallerAddrs))
    /\ pc' = "call"
    /\ err' = "none"
    /\ d' = 0 /\ f' = 0 /\ g' = 0 /\ idx' = 0
    /\ gen' = <<>>
    /\ iters' = 0 /\ len0' = 0
    /\ UNCHANGED <<op, cand, f_coef, d_coef, result>>

-----------------------------------------------------------------------------

Next ==
    \/ GcdRingElements
    \/ PolyInit
    \/ PolyNext
    \/ PolyReturn
    \/ EuclidTest
    \/ PolyEliminate
    \/ PolySwap
    \/ PolyNormalize
    \/ IdealTest
    \/ IdealEliminate
    \/ IdealReturn
    \/ Recall

\* Exact coefficients.
Spec == Init /\ [][Next]_vars

\* Coefficients that may be NaN.
SpecFloat == InitFloat /\ [][Next]_vars

-----------------------------------------------------------------------------
(* Vocabulary of the properties.                                           *)

IntCall == Len(generators) > 0 /\ ~generators[1].is_polynomial
PolyCall == Len(generators) > 0 /\ generators[1].is_polynomial

\* The integers passed, and the coefficient list of the i-th generator.
Numbers == [i \in 1..Len(generators) |-> generators[i].data]
Coefficients(i) == heap[generators[i].data]

\* a divides b in Z: b = k * a for some k.
IntDivides(a, b) == \E k \in (-Abs(b))..Abs(b) : b = k * a

CommonDivisor(c, numbers) == \A i \in 1..Len(numbers) : IntDivides(c, numbers[i])

\* A coefficient list that denotes the zero polynomial: [], [0], [0, 0], ...
ZeroPoly(p) == \A i \in 1..Len(p) : p[i] = Zero

\* A coefficient list of numbers in the normal form of the data model: it is
\* empty (the zero polynomial) or its last entry is not zero.
Numeric(p) == \A i \in 1..Len(p) : ~IsNaN(p[i])
NormalForm(p) == Numeric(p) /\ (Len(p) = 0 \/ Last(p) # Zero)
NormalGenerators == \A i \in 1..Len(generators) : NormalForm(Coefficients(i))

\* The polynomial a list denotes: the list without its zero top coefficients.
RECURSIVE Normal(_)
Normal(p) ==
    IF Len(p) > 0 /\ Last(p) = Zero THEN Normal(SubSeq(p, 1, Len(p) - 1)) ELSE p

\* Remainder of the long division of a by b in Q[x], a and b in normal form
\* and b not zero: while deg a >= deg b, subtract (lc a / lc b) x^(deg a - deg b) b.
RECURSIVE Remainder(_, _)
Remainder(a, b) ==
    IF Len(a) < Len(b) THEN a
    ELSE LET k == Len(a) - Len(b)
             q == RDiv(a[Len(a)], b[Len(b)])
             r == [i \in 1..(Len(a) - 1) |->
                     IF i > k THEN RSub(a[i], RMul(q, b[i - k])) ELSE a[i]]
         IN  Remainder(Normal(r), b)

\* b divides a in Q[x] (b not the zero polynomial).
PolyDivides(b, a) == Remainder(Normal(a), Normal(b)) = <<>>

-----------------------------------------------------------------------------
(* Properties.                                                             *)

\* C1: the integer generator returned by gcd_ring_elements (gcd_integers)
\* divides every element of the list and no common divisor is larger; for a
\* list of zeros, whose common divisors are all the integers, it is 0.
C1_GcdIsGreatestCommonDivisor ==
    (IntCall /\ gen # <<>>) =>
        /\ CommonDivisor(gen[1].data, Numbers)
        /\ IF \A i \in 1..Len(Numbers) : Numbers[i] = 0
           THEN gen[1].data = 0
           ELSE \A c \in (-MaxInt)..MaxInt :
                   CommonDivisor(c, Numbers) => c <= gen[1].data

\* C2: the integer GCD is never negative, and for a list of one integer v it
\* is |v|.
C2_GcdNonNegative ==
    (IntCall /\ gen # <<>>) =>
        /\ gen[1].data >= 0
        /\ Len(Numbers) = 1 => gen[1].data = Abs(Numbers[1])

\* C3: when is_in_ideal returns and the generator d it computed is not zero,
\* it returns true exactly when d divides the candidate f: in Z when f is a
\* multiple of d, in K[x] when the remainder of f by d is the zero polynomial.
C3_MembershipIsDivisibility ==
    (op = "is_in_ideal" /\ pc = "done") =>
        IF IntCall
        THEN gen[1].data # 0 =>
                (result[1] <=> IntDivides(gen[1].data, cand[1].data))
        ELSE (Numeric(heap[gen[1].data]) /\ Numeric(heap[cand[1].data])
                /\ ~ZeroPoly(heap[gen[1].data])) =>
                (result[1] <=> PolyDivides(heap[gen[1].data], heap[cand[1].data]))

\* C4: with integer generators that are all 0, is_in_ideal returns, true for
\* the candidate 0 and false for any other, and does not end in an exception.
C4_ZeroIdealHandled ==
    (op = "is_in_ideal" /\ IntCall /\ Finished
        /\ \A i \in 1..Len(Numbers) : Numbers[i] = 0) =>
        (pc = "done" /\ result = <<cand[1].data = 0>>)

\* C5: a call of gcd_ring_elements or is_in_ideal with no generators ends in
\* the empty-input error (ValueError) and nothing is returned.
C5_EmptyInputFails ==
    (Len(generators) = 0 /\ pc # "call") =>
        (pc = "raised" /\ err = "ValueError" /\ gen = <<>> /\ result = <<>>)

\* C5, witness: is_in_ideal of a polynomial candidate and no generators has
\* raised.
C5_Witness ==
    /\ Len(generators) = 0
    /\ op = "is_in_ideal"
    /\ cand[1].is_polynomial
    /\ pc = "raised"

\* C6: the polynomial generator returned for a list (in normal form) with a
\* non-zero polynomial is monic, a list of one polynomial included.
C6_GeneratorIsMonic ==
    (PolyCall /\ gen # <<>> /\ NormalGenerators
        /\ \E i \in 1..Len(generators) : ~ZeroPoly(Coefficients(i))) =>
        (Len(heap[gen[1].data]) > 0 /\ Last(heap[gen[1].data]) = One)

\* C7: a list (in normal form) of two or more polynomials that holds the zero
\* polynomial beside a non-zero one does not end gcd_polynomials in an
\* exception.  (The all-zero lists, which raise as well, are left aside.)
C7_ZeroPolynomialDoesNotBreak ==
    (PolyCall /\ Len(generators) >= 2 /\ NormalGenerators
        /\ (\E i \in 1..Len(generators) : ZeroPoly(Coefficients(i)))
        /\ (\E i \in 1..Len(generators) : ~ZeroPoly(Coefficients(i)))) =>
        pc # "raised"

\* C8: gcd_ring_elements gives the same monic polynomial for a list of
\* polynomials (in normal form) and for the same polynomials in another order.
C8_OrderIndependent ==
    (PolyCall /\ calls = 2 /\ Finished /\ NormalGenerators
        /\ (Outcome.ok \/ first[1].ok)) =>
        Outcome = first[1]

\* C9: no step of gcd_ring_elements or is_in_ideal changes a list of the
\* caller (a generator's or the candidate's) or the elements passed.
C9_CallerElementsUntouched ==
    [][/\ \A a \in CallerAddrs : a \in DOMAIN heap' /\ heap'[a] = heap[a]
       /\ ~Finished => (generators' = generators /\ cand' = cand)]_vars

\* C9, witness: the division loop of is_in_ideal has changed its working copy
\* of the candidate, which now differs from the candidate's own list.
C9_Witness ==
    /\ pc = "ideal_div"
    /\ iters >= 1
    /\ f_coef \notin CallerAddrs
    /\ heap[f_coef] # heap[cand[1].data]

\* C10: an elimination loop whose divisor is a non-zero polynomial (numbers,
\* last coefficient not zero), entered with a dividend of len0 coefficients
\* (degree len0 - 1), makes at most len0 passes.
C10_EliminationBounded ==
    /\ (pc = "poly_div" /\ NormalForm(heap[g])) => iters <= len0
    /\ (pc = "ideal_div" /\ NormalForm(heap[d_coef]) /\ Len(heap[d_coef]) > 0) =>
          iters <= len0

====
